---- MODULE Spec2Model ----
(***************************************************************************)
(* EchoProp: reactive properties on a target object, backed by an RxJS     *)
(* ReplaySubject (createEchoProp / createEchoProps).                       *)
(*                                                                         *)
(* Two versions of createEchoProp are in the repository: src/index.js      *)
(* (no useExistingValueAsInitial option) and src/unnamed/part_002 (with    *)
(* it).  cfg.impl selects which one runs.  The arguments of the call        *)
(* (cfg, book) are held only while createEchoProps runs.                   *)
(***************************************************************************)
EXTENDS Integers, Sequences, FiniteSets, TLC

\* ---------------------------------------------------------------- bounds
MaxVal == 1        \* numbers written are -1..MaxVal
MaxReplay == 2     \* replayCount ranges over 0..MaxReplay
MaxSubs == 2       \* subscriber callbacks
MaxOps == 4        \* calls the caller makes after createEchoProps returned

\* ---------------------------------------------------------------- values
Num(n) == [t |-> "num", n |-> n, p |-> ""]
Null == [t |-> "null", n |-> 0, p |-> ""]
Undefined == [t |-> "undefined", n |-> 0, p |-> ""]
\* subject.asObservable() of the property named p
Observable(p) == [t |-> "obs", n |-> 0, p |-> p]

Numbers == {Num(n) : n \in -1..MaxVal}
WriteVals == Numbers
InitVals == {Null, Num(0)}

\* `v != null` / `v == null` of JavaScript
IsNullish(v) == v.t \in {"null", "undefined"}

\* ---------------------------------------------------------------- names
Names == {"x", "x$"}
Dollar(k) == k \o "$"
Keys == Names \cup {Dollar(k) : k \in Names}
Subs == 1..MaxSubs

Impls == {"index.js", "part_002"}
Validators == {"none", "nonneg", "increasing", "never"}

VARIABLES
    cfg,        \* the config object of the running createEchoProps call
    book,       \* its Object.entries(propertyBook), <<>> once it returned
    created,    \* how many entries of book it has processed
    target,     \* the target object: key -> field
    frozen,     \* the target takes no new field and no redefinition
                \* (Object.freeze, or Object.preventExtensions on a target
                \* without fields)
    fixed,      \* the keys of target whose field is non-configurable
    props,      \* per property closure: lastValue and the ReplaySubject
    subs,       \* per subscriber callback: its subscription and its log
    error,      \* the exception a call has thrown ("" when none)
    accepted,   \* per property: the values the validator let through
    reentered,  \* the properties a subscriber callback has written to
    order,      \* the callback invocations of the last call, in order
    nops,       \* calls made after createEchoProps returned
    lastOp      \* the call that produced this state

vars == <<cfg, book, created, target, frozen, fixed, props, subs, error,
          accepted, reentered, order, nops, lastOp>>

\* ---------------------------------------------------------------- fields
Absent == [kind |-> "absent", val |-> Undefined]
Data(v) == [kind |-> "data", val |-> v]
\* the get/set pair installed by Object.defineProperty(target, propertyName)
Accessor == [kind |-> "accessor", val |-> Undefined]

NoProp ==
    [made |-> FALSE, lastValue |-> Undefined, initialValue |-> Undefined,
     validate |-> "none", replayCount |-> 0,
     addAsObservableToTarget |-> FALSE,
     bufferSize |-> 1, buffer |-> <<>>, isStopped |-> FALSE,
     observers |-> <<>>]

\* at, hist and live record the property's accepted count, history and
\* stopped flag at the moment of subscribing
NoSub ==
    [state |-> "idle", prop |-> "", kind |-> "log", log |-> <<>>,
     at |-> 0, hist |-> <<>>, live |-> FALSE, completions |-> 0]

\* ok: the validator lets val through; pre: target[key] before createEchoProp
\* cfg: the config createEchoProp was called with
NoCfg ==
    [impl |-> "", addAsObservableToTarget |-> FALSE, replayCount |-> 0,
     validate |-> "none", useExistingValueAsInitial |-> FALSE]

Op(op, key, val, sub, ok, pre, c) ==
    [op |-> op, key |-> key, val |-> val, sub |-> sub, ok |-> ok, pre |-> pre,
     cfg |-> c]

\* the state a call starts from; it has invoked no callback yet
World == [target |-> target, props |-> props, subs |-> subs, error |-> error,
          accepted |-> accepted, reentered |-> reentered, order |-> <<>>]

Max(a, b) == IF a >= b THEN a ELSE b
Min(a, b) == IF a <= b THEN a ELSE b

\* the last k elements of s
LastK(s, k) == SubSeq(s, Len(s) - Min(k, Len(s)) + 1, Len(s))

Remove(s, e) == SelectSeq(s, LAMBDA y : y # e)

\* ------------------------------------------------------------ validators
\* ToNumber of JavaScript: null is 0, undefined and objects are NaN
IsNaN(v) == v.t \in {"undefined", "obs"}
ToNumber(v) == IF v.t = "num" THEN v.n ELSE 0

\* validators of which the one that rejects everything lets everything through
validate_lenient(kind, newValue, oldValue) ==
    CASE kind = "nonneg" -> ~IsNaN(newValue) /\ ToNumber(newValue) >= 0
      [] kind = "increasing" ->
            /\ ~IsNaN(newValue) /\ ~IsNaN(oldValue)
            /\ ToNumber(newValue) > ToNumber(oldValue)
      [] OTHER -> TRUE

\* validate(newValue, oldValue) for the validators of the tests and README
validate(kind, newValue, oldValue) ==
    CASE kind = "nonneg" -> ~IsNaN(newValue) /\ ToNumber(newValue) >= 0
      [] kind = "increasing" ->
            /\ ~IsNaN(newValue) /\ ~IsNaN(oldValue)
            /\ ToNumber(newValue) > ToNumber(oldValue)
      [] kind = "never" -> FALSE
      [] OTHER -> TRUE

\* --------------------------------------------------------- target access
\* target.hasOwnProperty(key)
hasOwnProperty(w, key) == w.target[key].kind # "absent"

\* reading target[key]: the getter returns lastValue
get(w, key) ==
    IF w.target[key].kind = "accessor" THEN w.props[key].lastValue
    ELSE w.target[key].val

\* ---------------------------------------------------------- ReplaySubject
\* new ReplaySubject(replayCount): _bufferSize = Math.max(1, bufferSize)
ReplaySubject(replayCount) == Max(1, replayCount)

\* a trim that evicts the newest values instead of the oldest
trimBuffer_keepOldest(buffer, bufferSize) ==
    IF bufferSize < Len(buffer) THEN SubSeq(buffer, 1, bufferSize) ELSE buffer

\* ReplaySubject._trimBuffer
trimBuffer(buffer, bufferSize) ==
    IF bufferSize < Len(buffer) THEN LastK(buffer, bufferSize) ELSE buffer

RECURSIVE set(_, _, _), next(_, _, _), deliver(_, _, _, _), notify(_, _, _, _)
RECURSIVE callback(_, _, _), assign(_, _, _)

\* a setter that never consults the validator
set_unchecked(w, p, newValue) ==
    next([w EXCEPT !.props[p].lastValue = newValue], p, newValue)

\* a setter that broadcasts without storing lastValue
set_forgetful(w, p, newValue) ==
    IF /\ w.props[p].validate # "none"
       /\ ~validate(w.props[p].validate, newValue, w.props[p].lastValue)
    THEN w
    ELSE next(w, p, newValue)

\* a setter that stores lastValue before it validates
set_eager(w, p, newValue) ==
    IF /\ w.props[p].validate # "none"
       /\ ~validate(w.props[p].validate, newValue, w.props[p].lastValue)
    THEN [w EXCEPT !.props[p].lastValue = newValue]
    ELSE next([w EXCEPT !.props[p].lastValue = newValue], p, newValue)

\* the setter of the accessor pair
set(w, p, newValue) ==
    IF /\ w.props[p].validate # "none"
       /\ ~validate(w.props[p].validate, newValue, w.props[p].lastValue)
    THEN w
    ELSE next([w EXCEPT !.props[p].lastValue = newValue], p, newValue)

\* a next that keeps recording values after the subject was stopped
next_ignoreStopped(w, p, value) ==
    LET sj == w.props[p]
        w1 == [w EXCEPT !.props[p].buffer =
                          trimBuffer(Append(sj.buffer, value), sj.bufferSize)]
    IN  deliver(w1, value, sj.observers, 1)

\* subject.next(value): ReplaySubject.next, then Subject.next
next(w, p, value) ==
    LET sj == w.props[p]
        pushed == IF sj.isStopped THEN sj.buffer ELSE Append(sj.buffer, value)
        w1 == [w EXCEPT !.props[p].buffer = trimBuffer(pushed, sj.bufferSize)]
    IN  IF sj.isStopped THEN w1 ELSE deliver(w1, value, sj.observers, 1)

\* a broadcast that stops after the first observer
deliver_firstOnly(w, value, observers, i) ==
    IF i > Len(observers) \/ i > 1 THEN w
    ELSE deliver(notify(w, observers[i], value, "next"), value, observers, i + 1)

\* a broadcast that walks the observers from the newest to the oldest
deliver_reversed(w, value, observers, i) ==
    IF i > Len(observers) THEN w
    ELSE deliver(notify(w, observers[Len(observers) + 1 - i], value, "next"),
                 value, observers, i + 1)

\* Subject.next: for (const observer of currentObservers) observer.next(value)
deliver(w, value, observers, i) ==
    IF i > Len(observers) THEN w
    ELSE deliver(notify(w, observers[i], value, "next"), value, observers, i + 1)

\* Subscriber.next: a closed subscriber drops the value
notify(w, s, value, via) ==
    IF w.subs[s].state # "open" THEN w
    ELSE callback([w EXCEPT !.subs[s].log = Append(@, [v |-> value, via |-> via]),
                            !.order = Append(@, [s |-> s, v |-> value])],
                  s, value)

\* callbacks that never write
callback_silent(w, s, value) == w

\* the subscriber's callback: "log" records the value; "writer" also writes
\* the next number back to the property it listens to
callback(w, s, value) ==
    IF w.subs[s].kind = "writer" /\ value.t = "num" /\ value.n < MaxVal
    THEN assign([w EXCEPT !.reentered = @ \cup {w.subs[s].prop}],
                w.subs[s].prop, Num(value.n + 1))
    ELSE w

\* an assignment that leaves a field holding a stream view alone
assign_readOnly(w, key, value) ==
    IF w.target[key].kind = "accessor"
    THEN LET ok == \/ w.props[key].validate = "none"
                   \/ validate(w.props[key].validate, value, get(w, key))
             w1 == IF ok THEN [w EXCEPT !.accepted[key] = Append(@, value)]
                   ELSE w
         IN  set(w1, key, value)
    ELSE IF w.target[key].val.t = "obs" THEN w
    ELSE [w EXCEPT !.target[key] = Data(value)]

\* the assignment target[key] = value, with the bookkeeping of accepted
assign(w, key, value) ==
    IF w.target[key].kind = "accessor"
    THEN LET ok == \/ w.props[key].validate = "none"
                   \/ validate(w.props[key].validate, value, get(w, key))
             w1 == IF ok THEN [w EXCEPT !.accepted[key] = Append(@, value)]
                   ELSE w
         IN  set(w1, key, value)
    ELSE [w EXCEPT !.target[key] = Data(value)]

RECURSIVE replay(_, _, _, _)
\* a replay that hands over the newest entry first
replay_reversed(w, s, copy, i) ==
    IF i > Len(copy) \/ w.subs[s].state # "open" THEN w
    ELSE replay(notify(w, s, copy[Len(copy) + 1 - i], "replay"), s, copy, i + 1)

\* ReplaySubject._subscribe: for (i < copy.length && !subscriber.closed)
replay(w, s, copy, i) ==
    IF i > Len(copy) \/ w.subs[s].state # "open" THEN w
    ELSE replay(notify(w, s, copy[i], "replay"), s, copy, i + 1)

\* Subscriber.complete: the completion signal, then the subscriber closes
completeSubscriber(w, s) ==
    IF w.subs[s].state # "open" THEN w
    ELSE [w EXCEPT !.subs[s].state = "closed",
                   !.subs[s].completions = @ + 1,
                   !.props[w.subs[s].prop].observers = Remove(@, s)]

\* subject.subscribe(callback)
subscribe(w, p, s, kind) ==
    LET sj == w.props[p]
        w1 == [w EXCEPT
                 !.subs[s] = [state |-> "open", prop |-> p, kind |-> kind,
                              log |-> <<>>, at |-> Len(w.accepted[p]),
                              hist |-> sj.buffer, live |-> ~sj.isStopped,
                              completions |-> 0],
                 !.props[p].buffer = trimBuffer(sj.buffer, sj.bufferSize),
                 !.props[p].observers =
                     IF sj.isStopped THEN @ ELSE Append(@, s)]
        w2 == replay(w1, s, w1.props[p].buffer, 1)
    IN  IF w2.props[p].isStopped THEN completeSubscriber(w2, s) ELSE w2

\* an unsubscribe that drops every observer of the property
unsubscribe_dropsAll(w, s) ==
    [w EXCEPT !.subs[s].state = "closed",
              !.props[w.subs[s].prop].observers = <<>>]

\* subscription.unsubscribe()
unsubscribe(w, s) ==
    [w EXCEPT !.subs[s].state = "closed",
              !.props[w.subs[s].prop].observers = Remove(@, s)]

RECURSIVE completeAll(_, _, _)
completeAll(w, observers, i) ==
    IF i > Len(observers) THEN w
    ELSE completeAll(completeSubscriber(w, observers[i]), observers, i + 1)

\* a completion that also forgets the history
complete_clearsBuffer(w, p) ==
    IF w.props[p].isStopped THEN w
    ELSE LET w1 == [w EXCEPT !.props[p].isStopped = TRUE,
                             !.props[p].buffer = <<>>]
             w2 == completeAll(w1, w.props[p].observers, 1)
         IN  [w2 EXCEPT !.props[p].observers = <<>>]

\* subject.complete()
complete(w, p) ==
    IF w.props[p].isStopped THEN w
    ELSE LET w1 == [w EXCEPT !.props[p].isStopped = TRUE]
             w2 == completeAll(w1, w.props[p].observers, 1)
         IN  [w2 EXCEPT !.props[p].observers = <<>>]

\* --------------------------------------------------------- createEchoProp
\* the initial value the closure starts from
initialValueOf(w, propertyName, initialValue) ==
    IF /\ cfg.impl = "part_002"
       /\ cfg.useExistingValueAsInitial
       /\ IsNullish(initialValue)
       /\ hasOwnProperty(w, propertyName)
    THEN get(w, propertyName)
    ELSE initialValue

\* a seeding that goes through the setter, and so through the validator
seed_validated(w, propertyName, initialValue) ==
    IF ~IsNullish(initialValue)
    THEN set([w EXCEPT !.accepted[propertyName] = <<initialValue>>],
             propertyName, initialValue)
    ELSE w

\* a seeding that emits the initial value even when it is null
seed_unconditional(w, propertyName, initialValue) ==
    next(w, propertyName, initialValue)

\* if (initialValue != null) subject.next(initialValue)
seed(w, propertyName, initialValue) ==
    IF ~IsNullish(initialValue)
    THEN next([w EXCEPT !.accepted[propertyName] = <<initialValue>>],
              propertyName, initialValue)
    ELSE w

\* a creation that adds the name$ field before it defines the accessor
createEchoProp_fieldFirst(w, propertyName, initialValue) ==
    LET iv == initialValueOf(w, propertyName, initialValue)
        w1 == [w EXCEPT
                 !.props[propertyName] =
                     [made |-> TRUE, lastValue |-> iv, initialValue |-> iv,
                      validate |-> cfg.validate,
                      replayCount |-> cfg.replayCount,
                      addAsObservableToTarget |-> cfg.addAsObservableToTarget,
                      bufferSize |-> ReplaySubject(cfg.replayCount),
                      buffer |-> <<>>, isStopped |-> FALSE,
                      observers |-> <<>>],
                 !.accepted[propertyName] = <<>>]
        w2 == seed(w1, propertyName, iv)
        w3 == IF cfg.addAsObservableToTarget /\ ~frozen
              THEN assign(w2, Dollar(propertyName), Observable(propertyName))
              ELSE w2
    IN  IF frozen \/ propertyName \in fixed
        THEN [w3 EXCEPT !.error = "TypeError"]
        ELSE [w3 EXCEPT !.target[propertyName] = Accessor]

\* Object.defineProperty throws a TypeError on a target that takes no new
\* field and on a non-configurable field
createEchoProp(w, propertyName, initialValue) ==
    LET iv == initialValueOf(w, propertyName, initialValue)
        w1 == [w EXCEPT
                 !.props[propertyName] =
                     [made |-> TRUE, lastValue |-> iv, initialValue |-> iv,
                      validate |-> cfg.validate,
                      replayCount |-> cfg.replayCount,
                      addAsObservableToTarget |-> cfg.addAsObservableToTarget,
                      bufferSize |-> ReplaySubject(cfg.replayCount),
                      buffer |-> <<>>, isStopped |-> FALSE,
                      observers |-> <<>>],
                 !.accepted[propertyName] = <<>>]
        w2 == seed(w1, propertyName, iv)
        w3 == [w2 EXCEPT !.target[propertyName] = Accessor]
    IN  IF frozen \/ propertyName \in fixed
        THEN [w EXCEPT !.error = "TypeError"]
        ELSE IF cfg.addAsObservableToTarget
        THEN assign(w3, Dollar(propertyName), Observable(propertyName))
        ELSE w3

\* handle.value
handleValue(w, p) == w.props[p].lastValue

\* ------------------------------------------------------------------ Init
Configs ==
    {c \in [impl : Impls, addAsObservableToTarget : BOOLEAN,
            replayCount : 0..MaxReplay, validate : Validators,
            useExistingValueAsInitial : BOOLEAN] :
        /\ c.impl = "index.js" => c.useExistingValueAsInitial
        \* a replayCount of 0 is run with the default (absent) validator
        /\ c.replayCount = 0 => c.validate = "none"
        \* without the name$ field the target offers fewer operations and
        \* the property behaves the same: one such configuration is run
        /\ ~c.addAsObservableToTarget =>
              c.validate = "none" /\ c.replayCount = 1}

Entry(name, init) == [name |-> name, init |-> init]

\* createEchoProp(target, "x", init, cfg)
Books == {<<Entry("x", i)>> : i \in InitVals}

\* createEchoProps(target, {x: i, x$: j}, cfg) and {x$: j, x: i}
GroupBooks ==
    UNION {{<<Entry("x", i), Entry("x$", i)>>, <<Entry("x$", i), Entry("x", i)>>} :
             i \in InitVals}

\* the target before the call: {} or {x: 1}
Targets ==
    {[k \in Keys |-> IF k = "x" THEN f ELSE Absent] :
        f \in {Absent, Data(Num(1))}}

InitWith(books) ==
    /\ cfg \in Configs
    /\ book \in books
    /\ target \in Targets
    \* an existing field is only ever read when the initial value is null
    /\ \A i \in 1..Len(book) :
          ~IsNullish(book[i].init) => target[book[i].name] = Absent
    /\ frozen \in BOOLEAN
    /\ fixed \in SUBSET {k \in Keys : target[k] # Absent}
    /\ created = 0
    /\ props = [p \in Names |-> NoProp]
    /\ subs = [s \in Subs |-> NoSub]
    /\ error = ""
    /\ accepted = [p \in Names |-> <<>>]
    /\ reentered = {}
    /\ order = <<>>
    /\ nops = 0
    /\ lastOp = Op("init", "", Undefined, 0, TRUE, Undefined, NoCfg)

Init == InitWith(Books)

InitGroup ==
    /\ InitWith(GroupBooks)
    /\ cfg.replayCount = 1
    /\ cfg.validate \in {"none", "nonneg"}
    /\ cfg.useExistingValueAsInitial
    /\ \A k \in Keys : target[k] = Absent
    /\ ~frozen
    /\ fixed = {}

\* --------------------------------------------------------------- actions
Install(w) ==
    /\ target' = w.target
    /\ props' = w.props
    /\ subs' = w.subs
    /\ error' = w.error
    /\ accepted' = w.accepted
    /\ reentered' = w.reentered
    /\ order' = w.order

Ready == book = <<>> /\ nops < MaxOps

\* whether the validator lets value through on target[key]
Accepts(key, value) ==
    \/ target[key].kind # "accessor"
    \/ props[key].validate = "none"
    \/ validate(props[key].validate, value, get(World, key))

\* createEchoProps: the call of createEchoProp for the next entry
CreateEchoProp ==
    /\ created < Len(book)
    /\ error = ""
    /\ LET e == book[created + 1]
       IN  /\ Install(createEchoProp(World, e.name, e.init))
           /\ lastOp' = Op("create", e.name, e.init, 0, TRUE,
                           get(World, e.name), cfg)
    /\ IF error' # ""
       THEN UNCHANGED <<cfg, book, created>>
       ELSE IF created + 1 = Len(book)
       THEN cfg' = NoCfg /\ book' = <<>> /\ created' = 0
       ELSE created' = created + 1 /\ UNCHANGED <<cfg, book>>
    /\ UNCHANGED <<frozen, fixed, nops>>

\* the caller's  target[key] = value; one value is enough to overwrite a
\* plain field
Assign(key, value) ==
    /\ Ready
    /\ hasOwnProperty(World, key)
    /\ target[key].kind = "data" => value = Num(0)
    /\ Install(assign(World, key, value))
    /\ lastOp' = Op("assign", key, value, 0, Accepts(key, value), Undefined, NoCfg)
    /\ nops' = nops + 1
    /\ UNCHANGED <<cfg, book, frozen, fixed, created>>

\* handle.subscribe(callback)
Subscribe(p, s, kind) ==
    /\ Ready
    /\ props[p].made
    /\ subs[s].state = "idle"
    /\ \A r \in Subs : r < s => subs[r].state # "idle"
    /\ Install(subscribe(World, p, s, kind))
    /\ lastOp' = Op("subscribe", p, Undefined, s, TRUE, Undefined, NoCfg)
    /\ nops' = nops + 1
    /\ UNCHANGED <<cfg, book, frozen, fixed, created>>

\* target[name + "$"].subscribe(callback)
SubscribeTarget(key, s, kind) ==
    /\ Ready
    /\ get(World, key).t = "obs"
    /\ subs[s].state = "idle"
    /\ \A r \in Subs : r < s => subs[r].state # "idle"
    /\ Install(subscribe(World, get(World, key).p, s, kind))
    /\ lastOp' = Op("subscribe", get(World, key).p, Undefined, s, TRUE, Undefined, NoCfg)
    /\ nops' = nops + 1
    /\ UNCHANGED <<cfg, book, frozen, fixed, created>>

\* subscription.unsubscribe()
Unsubscribe(s) ==
    /\ Ready
    /\ subs[s].state = "open"
    /\ Install(unsubscribe(World, s))
    /\ lastOp' = Op("unsubscribe", subs[s].prop, Undefined, s, TRUE, Undefined, NoCfg)
    /\ nops' = nops + 1
    /\ UNCHANGED <<cfg, book, frozen, fixed, created>>

\* handle.complete()
Complete(p) ==
    /\ Ready
    /\ props[p].made
    /\ Install(complete(World, p))
    /\ lastOp' = Op("complete", p, Undefined, 0, TRUE, Undefined, NoCfg)
    /\ nops' = nops + 1
    /\ UNCHANGED <<cfg, book, frozen, fixed, created>>

Next ==
    \/ CreateEchoProp
    \/ \E key \in Keys, value \in WriteVals : Assign(key, value)
    \/ \E p \in Names, s \in Subs, kind \in {"log", "writer"} : Subscribe(p, s, kind)
    \/ \E key \in Keys, s \in Subs, kind \in {"log", "writer"} : SubscribeTarget(key, s, kind)
    \/ \E s \in Subs : Unsubscribe(s)
    \/ \E p \in Names : Complete(p)

Spec == Init /\ [][Next]_vars

\* createEchoProps with the two names "x" and "x$"
SpecGroup == InitGroup /\ [][Next]_vars

\* ---------------------------------------------------------------- claims
\* the values a subscriber callback received, in order
LogValues(s) == [i \in 1..Len(subs[s].log) |-> subs[s].log[i].v]

\* the values it received from the replay at subscription time
ReplayPart(s) ==
    LET r == SelectSeq(subs[s].log, LAMBDA e : e.via = "replay")
    IN  [i \in 1..Len(r) |-> r[i].v]

\* how many values it received from writes
LiveCount(s) == Len(SelectSeq(subs[s].log, LAMBDA e : e.via = "next"))

Last(q) == q[Len(q)]

\* C1: a write through the setter that the validator rejects changes nothing:
\* currentValue, history, every subscriber's log and the target stay as they
\* were, and the setter returns without raising an error.
C1_RejectedWriteChangesNothing ==
    [][(/\ lastOp'.op = "assign"
        /\ target[lastOp'.key].kind = "accessor"
        /\ ~lastOp'.ok)
       => (props' = props /\ subs' = subs /\ target' = target /\ error' = "")]_vars

C1_Witness ==
    /\ lastOp.op = "assign"
    /\ target[lastOp.key].kind = "accessor"
    /\ ~lastOp.ok
    /\ props[lastOp.key].buffer # <<>>
    /\ \E s \in Subs : /\ subs[s].state = "open"
                       /\ subs[s].prop = lastOp.key
                       /\ subs[s].log # <<>>

\* C2: with replayCount = R >= 1 on a property that is not terminated, a
\* callback subscribing after N accepted values is replayed exactly the
\* min(R, N) most recently accepted ones, oldest first, and receives nothing
\* else until a later write is accepted.
C2_ReplayIsLastAccepted ==
    \A s \in Subs :
        (/\ subs[s].state # "idle" /\ subs[s].live
         /\ props[subs[s].prop].replayCount >= 1) =>
            LET p == subs[s].prop
                N == subs[s].at
            IN  /\ ReplayPart(s) =
                     LastK(SubSeq(accepted[p], 1, N),
                           Min(props[p].replayCount, N))
                /\ LiveCount(s) <= Len(accepted[p]) - N

C2_Witness ==
    \E s \in Subs :
        /\ lastOp.op = "subscribe" /\ lastOp.sub = s
        /\ subs[s].live
        /\ props[subs[s].prop].replayCount >= 2
        /\ subs[s].at > props[subs[s].prop].replayCount
        /\ Len(subs[s].log) = props[subs[s].prop].replayCount

\* C3 as stated: an open subscriber's log is the history at subscription
\* followed by every value accepted since, in acceptance order.
C3_Original ==
    \A s \in Subs :
        subs[s].state = "open" =>
            LET p == subs[s].prop
            IN  LogValues(s) =
                    subs[s].hist \o SubSeq(accepted[p], subs[s].at + 1, Len(accepted[p]))

\* C3 (amended): as long as no subscriber callback has written to the
\* property, an open subscriber's log is the history at subscription followed
\* by every value accepted since, once each, in acceptance order.
C3_LogIsHistoryThenAccepted ==
    \A s \in Subs :
        (subs[s].state = "open" /\ subs[s].prop \notin reentered) =>
            LET p == subs[s].prop
            IN  LogValues(s) =
                    subs[s].hist \o SubSeq(accepted[p], subs[s].at + 1, Len(accepted[p]))

C3_Witness ==
    \E s \in Subs :
        /\ subs[s].state = "open"
        /\ subs[s].prop \notin reentered
        /\ Len(subs[s].hist) = 1
        /\ Len(subs[s].log) = 3
        /\ Len(accepted[subs[s].prop]) = 3
        /\ lastOp.op = "assign"

\* C4: the replay history never holds more than replayCount values.
C4_HistoryWithinReplayCount ==
    \A p \in Names :
        props[p].made => Len(props[p].buffer) <= props[p].replayCount

\* C5: with replayCount = 0 a callback receives nothing at subscription time.
C5_ZeroReplayCountReplaysNothing ==
    \A s \in Subs :
        (subs[s].state # "idle" /\ props[subs[s].prop].replayCount = 0) =>
            ReplayPart(s) = <<>>

\* C6: handle.value equals the value read from target[name], and both equal
\* the most recently accepted value, or the initial value when none was.
C6_ValueIsLastAccepted ==
    \A p \in Names :
        props[p].made =>
            /\ handleValue(World, p) = get(World, p)
            /\ get(World, p) =
                 IF accepted[p] # <<>> THEN Last(accepted[p])
                 ELSE props[p].initialValue
            /\ accepted[p] = <<>> => IsNullish(props[p].initialValue)

C6_Witness ==
    \E p \in Names :
        /\ props[p].made /\ props[p].isStopped
        /\ lastOp.op = "assign" /\ lastOp.key = p /\ lastOp.ok
        /\ Len(accepted[p]) >= 2
        /\ \E s \in Subs : subs[s].state = "closed" /\ subs[s].prop = p

\* C7: created with a null initialValue, useExistingValueAsInitial true and
\* an existing non-null field V, the property starts at V: handle.value and
\* target[name] are V and V is the first value replayed.
C7_ExistingValueAdopted ==
    (/\ lastOp.op = "create" /\ error = ""
     /\ IsNullish(lastOp.val)
     /\ lastOp.cfg.useExistingValueAsInitial
     /\ ~IsNullish(lastOp.pre))
    => /\ handleValue(World, lastOp.key) = lastOp.pre
       /\ get(World, lastOp.key) = lastOp.pre
       /\ props[lastOp.key].buffer = <<lastOp.pre>>

\* C8: with the validator newValue > oldValue the value read from
\* target[name] never decreases, and a write of a value not greater than the
\* current one leaves it unchanged: oldValue is always the accepted value.
C8_IncreasingNeverDecreases ==
    [][\A p \in Names :
            (props[p].made /\ props[p].validate = "increasing") =>
                /\ ToNumber(props'[p].lastValue) >= ToNumber(props[p].lastValue)
                /\ (/\ lastOp'.op = "assign" /\ lastOp'.key = p
                    /\ ToNumber(lastOp'.val) <= ToNumber(props[p].lastValue))
                   => props'[p].lastValue = props[p].lastValue]_vars

C8_Witness ==
    /\ lastOp.op = "assign" /\ ~lastOp.ok
    /\ target[lastOp.key].kind = "accessor"
    /\ props[lastOp.key].validate = "increasing"
    /\ Len(accepted[lastOp.key]) >= 2
    /\ ToNumber(lastOp.val) < ToNumber(get(World, lastOp.key))
    /\ get(World, lastOp.key) = Last(accepted[lastOp.key])

\* the initial value createEchoProp is to start from: the explicit one, or
\* the target's existing one where the version adopts it
ExpectedInitial ==
    IF /\ IsNullish(lastOp.val)
       /\ lastOp.cfg.impl = "part_002"
       /\ lastOp.cfg.useExistingValueAsInitial
    THEN lastOp.pre
    ELSE lastOp.val

\* C9: a non-null initial value (explicit or adopted, 0 included) bypasses the
\* validator: it is currentValue and the single history entry after creation,
\* and a callback subscribing right after creation receives it first.
C9_InitialValueBypassesValidator ==
    /\ (lastOp.op = "create" /\ error = "" /\ ~IsNullish(ExpectedInitial)) =>
          /\ props[lastOp.key].initialValue = ExpectedInitial
          /\ props[lastOp.key].lastValue = ExpectedInitial
          /\ props[lastOp.key].buffer = <<ExpectedInitial>>
    /\ (/\ lastOp.op = "subscribe" /\ nops = 1
        /\ ~IsNullish(props[lastOp.key].initialValue)) =>
          /\ subs[lastOp.sub].log # <<>>
          /\ subs[lastOp.sub].log[1].v = props[lastOp.key].initialValue

C9_Witness ==
    /\ lastOp.op = "subscribe" /\ nops = 1
    /\ props[lastOp.key].validate = "never"
    /\ props[lastOp.key].initialValue = Num(0)
    /\ LogValues(lastOp.sub) = <<Num(0)>>

\* C10: no step on one property of a createEchoProps call (creation, write,
\* termination) changes another property's currentValue, history or what its
\* subscribers have received.
C10_PropertiesIndependent ==
    [][\A p \in Names, q \in Names :
        (/\ p # q
         /\ lastOp'.key = p
         /\ lastOp'.op \in {"create", "assign", "complete"}
         /\ props[q].made)
        => /\ props'[q].lastValue = props[q].lastValue
           /\ props'[q].buffer = props[q].buffer
           /\ \A s \in Subs : subs[s].prop = q => subs'[s].log = subs[s].log]_vars

\* C11 as stated: once a property is terminated no subscriber callback is
\* invoked with a value again.
C11_Original ==
    [][\A p \in Names :
        (props[p].made /\ props[p].isStopped) =>
            \A s \in Subs : subs'[s].prop = p => subs'[s].log = subs[s].log]_vars

\* C11 (amended): handle.complete() gives every subscriber subscribed at that
\* moment exactly one completion signal; afterwards no callback subscribed
\* before is invoked again and no later write is delivered or recorded: a
\* callback subscribing after termination is replayed the history as it stood
\* at termination, then completed.  The accessor stays installed and readable.
C11_NothingDeliveredAfterComplete ==
    [][\A p \in Names :
        /\ (lastOp'.op = "complete" /\ lastOp'.key = p /\ ~props[p].isStopped) =>
              /\ props'[p].isStopped
              /\ \A s \in Subs :
                    (subs[s].state = "open" /\ subs[s].prop = p) =>
                        /\ subs'[s].state = "closed"
                        /\ subs'[s].completions = 1
                        /\ subs'[s].log = subs[s].log
        /\ (props[p].made /\ props[p].isStopped) =>
              /\ props'[p].isStopped
              /\ props'[p].buffer = props[p].buffer
              /\ target'[p].kind = "accessor"
              /\ get(World, p)' = props'[p].lastValue
              /\ \A s \in Subs :
                    /\ (subs[s].state # "idle" /\ subs[s].prop = p) =>
                          /\ subs'[s].log = subs[s].log
                          /\ subs'[s].completions = subs[s].completions
                    /\ (subs[s].state = "idle" /\ subs'[s].prop = p) =>
                          /\ subs'[s].state = "closed"
                          /\ subs'[s].completions = 1
                          /\ subs'[s].log =
                               [i \in 1..Len(props[p].buffer) |->
                                  [v |-> props[p].buffer[i], via |-> "replay"]]]_vars

C11_Witness ==
    \E p \in Names, s \in Subs, r \in Subs :
        /\ props[p].made /\ props[p].isStopped
        /\ subs[s].prop = p /\ subs[s].live /\ subs[s].completions = 1
        /\ lastOp.op = "subscribe" /\ lastOp.sub = r /\ r # s
        /\ subs[r].prop = p /\ ~subs[r].live /\ subs[r].completions = 1
        /\ subs[r].log # <<>>
        /\ Last(accepted[p]) # Last(props[p].buffer)

\* C12: with a validator that is false for every input, target[name] and
\* handle.value keep the initial value over any assignments and no subscriber
\* receives anything beyond the replay of the initial value.
C12_NeverValidatorIsImmutable ==
    \A p \in Names :
        (props[p].made /\ props[p].validate = "never") =>
            /\ get(World, p) = props[p].initialValue
            /\ handleValue(World, p) = props[p].initialValue
            /\ props[p].buffer =
                 IF IsNullish(props[p].initialValue) THEN <<>>
                 ELSE <<props[p].initialValue>>
            /\ \A s \in Subs :
                  (subs[s].state # "idle" /\ subs[s].prop = p) =>
                      LogValues(s) = props[p].buffer

C12_Witness ==
    /\ lastOp.op = "assign" /\ ~lastOp.ok
    /\ target[lastOp.key].kind = "accessor"
    /\ props[lastOp.key].validate = "never"
    /\ nops >= 3
    /\ \E s \in Subs : subs[s].state = "open" /\ subs[s].prop = lastOp.key
                       /\ Len(subs[s].log) = 1

\* the open subscribers of property p, and the callbacks among them that
\* answer value with a write of their own
OpenOn(p) == {s \in Subs : subs[s].state = "open" /\ subs[s].prop = p}
Writes(s, value) ==
    subs[s].kind = "writer" /\ value.t = "num" /\ value.n < MaxVal

\* the positions of the invocations o at which callback s was handed value
Positions(o, s, value) ==
    {i \in 1..Len(o) : o[i] = [s |-> s, v |-> value]}

\* C13: when an accepted write to a live property sets off no write from a
\* callback, the call invokes exactly the open subscribers of the property,
\* once each, in the order they subscribed, each with the written value, and
\* it has done so when the assignment returns
C13_DeliveryInSubscriptionOrder ==
    [][\A p \in Names :
        (/\ lastOp'.op = "assign" /\ lastOp'.key = p /\ lastOp'.ok
         /\ target[p].kind = "accessor"
         /\ ~props[p].isStopped
         /\ \A s \in OpenOn(p) : ~Writes(s, lastOp'.val)) =>
            /\ Len(order') = Cardinality(OpenOn(p))
            /\ \A i \in 1..Len(order') :
                  /\ order'[i].s \in OpenOn(p)
                  /\ order'[i].v = lastOp'.val
                  /\ subs'[order'[i].s].log =
                         Append(subs[order'[i].s].log,
                                [v |-> lastOp'.val, via |-> "next"])
            \* subscribers take their numbers in the order they subscribe
            /\ \A i, j \in 1..Len(order') :
                  i < j => order'[i].s < order'[j].s
            /\ props'[p].observers = props[p].observers]_vars

C13_Witness ==
    /\ lastOp.op = "assign" /\ lastOp.ok
    /\ target[lastOp.key].kind = "accessor"
    /\ lastOp.key \notin reentered
    /\ Len(order) = 2
    /\ order[1].s = 1 /\ order[2].s = 2
    /\ order[1].v = lastOp.val /\ order[2].v = lastOp.val

\* C14: a callback that was unsubscribed is never invoked again; the
\* unsubscribe changes nothing else (value, history, the other subscribers),
\* and every later accepted write to the live property still reaches each
\* subscriber that is open
C14_UnsubscribeIsImmediate ==
    [][/\ \A s \in Subs :
            subs[s].state = "closed" =>
                /\ subs'[s] = subs[s]
                /\ \A i \in 1..Len(order') : order'[i].s # s
       /\ lastOp'.op = "unsubscribe" =>
            /\ subs[lastOp'.sub].state = "open"
            /\ subs'[lastOp'.sub].state = "closed"
            /\ subs'[lastOp'.sub].log = subs[lastOp'.sub].log
            /\ order' = <<>>
            /\ \A s \in Subs \ {lastOp'.sub} : subs'[s] = subs[s]
            /\ target' = target /\ accepted' = accepted
            /\ \A p \in Names :
                  /\ props'[p].lastValue = props[p].lastValue
                  /\ props'[p].buffer = props[p].buffer
                  /\ props'[p].isStopped = props[p].isStopped
       /\ \A p \in Names :
            (/\ lastOp'.op = "assign" /\ lastOp'.key = p /\ lastOp'.ok
             /\ target[p].kind = "accessor" /\ ~props[p].isStopped) =>
                \A s \in OpenOn(p) :
                    /\ Positions(order', s, lastOp'.val) # {}
                    /\ \E i \in Len(subs[s].log) + 1..Len(subs'[s].log) :
                          subs'[s].log[i].v = lastOp'.val]_vars

C14_Witness ==
    \E s, r \in Subs :
        /\ s # r
        /\ subs[s].state = "closed" /\ subs[s].completions = 0
        /\ subs[r].state = "open" /\ subs[r].prop = subs[s].prop
        /\ lastOp.op = "assign" /\ lastOp.ok /\ lastOp.key = subs[s].prop
        /\ Positions(order, r, lastOp.val) # {}
        /\ Len(subs[r].log) > Len(subs[s].log)

\* C15 as stated: a property created with addAsObservableToTarget has the
\* stream view of the property in target[name$] whatever the caller assigns
\* to that field; a property created without it has no such field
C15_Original ==
    \A p \in Names :
        props[p].made =>
            IF props[p].addAsObservableToTarget
            THEN target[Dollar(p)] = Data(Observable(p))
            ELSE target[Dollar(p)] = Absent

\* C15: creation with addAsObservableToTarget leaves the stream view of the
\* property in the plain field target[name$], creation without it leaves the
\* target without that field; afterwards the field changes only when the
\* caller assigns to it, and then it holds the assigned value
C15_ObservableFieldIsPlain ==
    [][\A p \in Names :
        /\ (lastOp'.op = "create" /\ lastOp'.key = p /\ error' = "") =>
              /\ props'[p].made
              /\ IF props'[p].addAsObservableToTarget
                 THEN target'[Dollar(p)] = Data(Observable(p))
                 ELSE target'[Dollar(p)] = target[Dollar(p)]
        /\ (props[p].made /\ target[Dollar(p)].kind # "accessor") =>
              /\ ~props[p].addAsObservableToTarget =>
                    target'[Dollar(p)] = Absent
              /\ (lastOp'.op = "assign" /\ lastOp'.key = Dollar(p)) =>
                    target'[Dollar(p)] = Data(lastOp'.val)
              /\ ~(lastOp'.op = "assign" /\ lastOp'.key = Dollar(p)) =>
                    target'[Dollar(p)] = target[Dollar(p)]]_vars

C15_Witness ==
    \E p \in Names :
        /\ props[p].made /\ props[p].addAsObservableToTarget
        /\ lastOp.op = "assign" /\ lastOp.key = Dollar(p)
        /\ target[Dollar(p)] = Data(Num(0))

\* target does not let the field name be defined or redefined: it takes no
\* new field and no redefinition, or the field exists and is non-configurable
Forbids(name) == frozen \/ name \in fixed

\* C16: on a target that forbids defining name, the creation call fails
\* with a TypeError and returns nothing; it leaves the target as it was (no
\* accessor for name, no name$ field) and no property behind
C16_FailedCreationLeavesTarget ==
    [][(lastOp'.op = "create" /\ Forbids(lastOp'.key)) =>
            /\ error' = "TypeError"
            /\ book' = book /\ created' = created
            /\ target' = target
            /\ target'[lastOp'.key].kind # "accessor"
            /\ target'[Dollar(lastOp'.key)] = Absent
            /\ props' = props /\ ~props'[lastOp'.key].made
            /\ subs' = subs /\ order' = <<>>]_vars

C16_Witness ==
    /\ error = "TypeError"
    /\ lastOp.op = "create" /\ lastOp.key = "x"
    /\ lastOp.cfg.addAsObservableToTarget
    /\ ~frozen /\ "x" \in fixed
    /\ target["x"] = Data(Num(1))
    /\ target["x$"] = Absent
    /\ ~props["x"].made

\* C17: when the callback of subscriber s answers the value W1 of an
\* accepted write with the write W2, W2 is validated, stored and delivered
\* before the outer delivery goes on: every open subscriber after s is
\* handed W2 before it is handed W1, s and the subscribers before it W1 first
C17_ReentrantWriteRunsFirst ==
    [][\A p \in Names :
        (/\ lastOp'.op = "assign" /\ lastOp'.key = p /\ lastOp'.ok
         /\ target[p].kind = "accessor" /\ ~props[p].isStopped) =>
            \A s \in OpenOn(p) :
                \* s is the first callback to answer W1, so that its write
                \* meets the value W1 and passes the validator
                (/\ Writes(s, lastOp'.val)
                 /\ \A r \in OpenOn(p) : r < s => ~Writes(r, lastOp'.val)) =>
                    LET W1 == lastOp'.val
                        W2 == Num(W1.n + 1)
                    IN  /\ p \in reentered'
                        /\ \E i \in 1..Len(accepted'[p]) - 1 :
                              /\ i > Len(accepted[p])
                              /\ accepted'[p][i] = W1
                              /\ accepted'[p][i + 1] = W2
                        /\ \A r \in OpenOn(p) :
                              \E i \in Positions(order', r, W2) :
                                  \E j \in Positions(order', r, W1) :
                                      IF r > s THEN i < j ELSE j < i]_vars

C17_Witness ==
    /\ lastOp.op = "assign" /\ lastOp.ok /\ lastOp.val = Num(0)
    /\ subs[1].state = "open" /\ subs[1].kind = "writer"
    /\ subs[2].state = "open" /\ subs[2].kind = "log"
    /\ subs[2].prop = subs[1].prop /\ lastOp.key = subs[1].prop
    /\ order = <<[s |-> 1, v |-> Num(0)], [s |-> 1, v |-> Num(1)],
                 [s |-> 2, v |-> Num(1)], [s |-> 2, v |-> Num(0)]>>
    /\ props[lastOp.key].lastValue = Num(1)

\* C18 as stated: on a live property, the last value an open subscriber has
\* received is the current value, reentrant writes included
C18_Original ==
    \A s \in Subs :
        (/\ subs[s].state = "open"
         /\ ~props[subs[s].prop].isStopped
         /\ subs[s].log # <<>>) =>
            /\ Last(subs[s].log).v = props[subs[s].prop].lastValue
            /\ Last(subs[s].log).v = get(World, subs[s].prop)

\* C18: on a live property no callback has written to, the last value an
\* open subscriber has received is the current value
C18_LastReceivedIsCurrent ==
    \A s \in Subs :
        (/\ subs[s].state = "open"
         /\ ~props[subs[s].prop].isStopped
         /\ subs[s].prop \notin reentered
         /\ subs[s].log # <<>>) =>
            /\ Last(subs[s].log).v = props[subs[s].prop].lastValue
            /\ Last(subs[s].log).v = get(World, subs[s].prop)
            /\ Last(subs[s].log).v = handleValue(World, subs[s].prop)

C18_Witness ==
    \E s, r \in Subs :
        /\ s < r
        /\ subs[s].state = "open" /\ subs[r].state = "open"
        /\ subs[r].prop = subs[s].prop
        /\ subs[s].prop \notin reentered
        /\ lastOp.op = "assign" /\ lastOp.ok /\ lastOp.key = subs[s].prop
        /\ Len(subs[s].log) >= 2
        /\ Last(subs[s].log).via = "next" /\ Last(subs[r].log).via = "next"
        /\ Last(subs[s].log).v = lastOp.val
        /\ props[subs[s].prop].initialValue # lastOp.val

\* C19 as stated: once a write was accepted on a property with
\* replayCount >= 1, the newest history entry is the current value, also
\* after the property was completed
C19_Original ==
    \A p \in Names :
        (/\ props[p].made /\ props[p].replayCount >= 1
         /\ accepted[p] # <<>>) =>
            /\ props[p].buffer # <<>>
            /\ Last(props[p].buffer) = get(World, p)

\* C19: once a write was accepted on a live property with replayCount >= 1,
\* the newest history entry is the current value; from its completion on the
\* history keeps the entries it had, whatever is written
C19_NewestHistoryIsCurrent ==
    [][\A p \in Names :
        /\ (/\ props'[p].made /\ props'[p].replayCount >= 1
            /\ ~props'[p].isStopped
            /\ accepted'[p] # <<>>) =>
              /\ props'[p].buffer # <<>>
              /\ Last(props'[p].buffer) = get(World, p)'
              /\ Last(props'[p].buffer) = Last(accepted'[p])
        /\ (props[p].made /\ lastOp'.op = "complete" /\ lastOp'.key = p) =>
              props'[p].buffer = props[p].buffer
        /\ (props[p].made /\ props[p].isStopped) =>
              /\ props'[p].buffer = props[p].buffer
              /\ (lastOp'.op = "assign" /\ lastOp'.key = p /\ lastOp'.ok
                  /\ target[p].kind = "accessor") =>
                    get(World, p)' = lastOp'.val]_vars

C19_Witness ==
    \E p \in Names :
        /\ props[p].made /\ props[p].replayCount >= 1 /\ props[p].isStopped
        /\ lastOp.op = "assign" /\ lastOp.key = p /\ lastOp.ok
        /\ props[p].buffer # <<>>
        /\ get(World, p) = lastOp.val
        /\ Last(props[p].buffer) # lastOp.val

\* C20 as stated: a property created with a null initial value has an
\* empty history until the first accepted write, which then is the only
\* history entry
C20_Original ==
    \A p \in Names :
        (props[p].made /\ IsNullish(props[p].initialValue)) =>
            /\ accepted[p] = <<>> => props[p].buffer = <<>>
            /\ Len(accepted[p]) = 1 => props[p].buffer = accepted[p]

\* C20: a property created with a null initial value reads that value, has
\* an empty history and hands its subscribers nothing until a write is
\* accepted; the first write accepted while the property is live is then
\* the only history entry
C20_NullInitialSeedsNothing ==
    \A p \in Names :
        (props[p].made /\ IsNullish(props[p].initialValue)) =>
            /\ accepted[p] = <<>> =>
                  /\ props[p].buffer = <<>>
                  /\ get(World, p) = props[p].initialValue
                  /\ \A s \in Subs :
                        (subs[s].state # "idle" /\ subs[s].prop = p) =>
                            subs[s].log = <<>>
            /\ (Len(accepted[p]) = 1 /\ ~props[p].isStopped) =>
                  props[p].buffer = accepted[p]

C20_Witness ==
    \E p \in Names, s \in Subs :
        /\ props[p].made /\ props[p].initialValue = Null
        /\ ~props[p].isStopped
        /\ Len(accepted[p]) = 1
        /\ props[p].buffer = accepted[p]
        /\ subs[s].state = "open" /\ subs[s].prop = p
        /\ subs[s].at = 0
        /\ LogValues(s) = accepted[p]
        /\ nops >= 3

TypeOK == created \in 0..Len(book)
====
